---- MODULE Spec2Model ----
(***************************************************************************)
(* Model of the HealthProfile validation record (src/health_profile.py)    *)
(* of BMICalculator (src/bmi_calculator.py) and of the dashboard script   *)
(* (src/app.py).                                                           *)
(*                                                                         *)
(* Numbers are fixed-point thousandths: 18.2 is 18200, 0.078 is 78.  A     *)
(* Python value is a tagged record: a number, None, or a non-numeric value *)
(* (a str), so that the comparisons of _check_range can raise TypeError    *)
(* exactly where Python's do.                                              *)
(***************************************************************************)
EXTENDS Integers, Sequences, FiniteSets, TLC

VARIABLES call, pc, p, q, heap, held, nassign, calc, category, app, rendered

vars == <<call, pc, p, q, heap, held, nassign, calc, category, app, rendered>>

(***************************************************************************)
(* Python values                                                           *)
(***************************************************************************)
Num(n) == [t |-> "num", v |-> n]
None == [t |-> "none", v |-> 0]
Str == [t |-> "str", v |-> 0]

(***************************************************************************)
(* VALID_RANGES, in thousandths                                            *)
(***************************************************************************)
VALID_RANGES_MinPregnancies1 ==
    [pregnancies |-> <<1000, 20000>>,
     glucose |-> <<44000, 199000>>,
     blood_pressure |-> <<24000, 122000>>,
     skin_thickness |-> <<7000, 99000>>,
     insulin |-> <<14000, 846000>>,
     bmi |-> <<18200, 67100>>,
     diabetes_pedigree |-> <<78, 2420>>,
     age |-> <<21000, 81000>>]

VALID_RANGES ==
    [pregnancies |-> <<0, 20000>>,
     glucose |-> <<44000, 199000>>,
     blood_pressure |-> <<24000, 122000>>,
     skin_thickness |-> <<7000, 99000>>,
     insulin |-> <<14000, 846000>>,
     bmi |-> <<18200, 67100>>,
     diabetes_pedigree |-> <<78, 2420>>,
     age |-> <<21000, 81000>>]

\* The dataclass fields, in declaration order.
FieldOrder ==
    <<"glucose", "blood_pressure", "bmi", "age",
      "skin_thickness", "insulin", "pregnancies", "diabetes_pedigree">>

FieldSet == {FieldOrder[i] : i \in DOMAIN FieldOrder}

\* Fields without a default: the dataclass __init__ requires them.
RequiredFields == {"glucose", "blood_pressure", "bmi", "age"}

\* Defaults of the other fields.
FieldDefault(f) == IF f = "pregnancies" THEN Num(0) ELSE None

\* field_name.replace('_', ' ').title()
Title(field_name) ==
    CASE field_name = "glucose" -> "Glucose"
      [] field_name = "blood_pressure" -> "Blood Pressure"
      [] field_name = "bmi" -> "Bmi"
      [] field_name = "age" -> "Age"
      [] field_name = "skin_thickness" -> "Skin Thickness"
      [] field_name = "insulin" -> "Insulin"
      [] field_name = "pregnancies" -> "Pregnancies"
      [] field_name = "diabetes_pedigree" -> "Diabetes Pedigree"

\* The f-string of _check_range: "<Title> (<value>) is <kind> <which> expected
\* value (<bound>)", kept as its four varying parts.
Message(field_name, value, kind, bound) ==
    [field |-> Title(field_name), value |-> value, kind |-> kind, bound |-> bound]

(***************************************************************************)
(* Validation.  The state threaded through the checks is the error list    *)
(* built so far and whether a comparison has raised TypeError (after which *)
(* nothing more runs).                                                     *)
(***************************************************************************)
Started == [raised |-> FALSE, errors |-> <<>>]

_check_range_StrictBounds(st, field_name, value) ==
    IF st.raised THEN st
    ELSE IF field_name \notin DOMAIN VALID_RANGES THEN st
    ELSE IF value.t # "num" THEN [st EXCEPT !.raised = TRUE]
    ELSE LET min_val == VALID_RANGES[field_name][1]
             max_val == VALID_RANGES[field_name][2]
         IN  IF value.v <= min_val
             THEN [st EXCEPT !.errors =
                      Append(@, Message(field_name, value.v, "below minimum", min_val))]
             ELSE IF value.v >= max_val
             THEN [st EXCEPT !.errors =
                      Append(@, Message(field_name, value.v, "above maximum", max_val))]
             ELSE st

_check_range(st, field_name, value) ==
    IF st.raised THEN st
    ELSE IF field_name \notin DOMAIN VALID_RANGES THEN st
    ELSE IF value.t # "num" THEN [st EXCEPT !.raised = TRUE]
    ELSE LET min_val == VALID_RANGES[field_name][1]
             max_val == VALID_RANGES[field_name][2]
         IN  IF value.v < min_val
             THEN [st EXCEPT !.errors =
                      Append(@, Message(field_name, value.v, "below minimum", min_val))]
             ELSE IF value.v > max_val
             THEN [st EXCEPT !.errors =
                      Append(@, Message(field_name, value.v, "above maximum", max_val))]
             ELSE st

_validate_AgeFirst(self) ==
    LET e1 == _check_range(Started, "age", self.age)
        e2 == _check_range(e1, "glucose", self.glucose)
        e3 == _check_range(e2, "blood_pressure", self.blood_pressure)
        e4 == _check_range(e3, "bmi", self.bmi)
        e5 == IF self.skin_thickness # None
              THEN _check_range(e4, "skin_thickness", self.skin_thickness) ELSE e4
        e6 == IF self.insulin # None
              THEN _check_range(e5, "insulin", self.insulin) ELSE e5
        e7 == IF self.pregnancies # Num(0)
              THEN _check_range(e6, "pregnancies", self.pregnancies) ELSE e6
        e8 == IF self.diabetes_pedigree # None
              THEN _check_range(e7, "diabetes_pedigree", self.diabetes_pedigree) ELSE e7
    IN  e8

_validate(self) ==
    LET e1 == _check_range(Started, "glucose", self.glucose)
        e2 == _check_range(e1, "blood_pressure", self.blood_pressure)
        e3 == _check_range(e2, "bmi", self.bmi)
        e4 == _check_range(e3, "age", self.age)
        e5 == IF self.skin_thickness # None
              THEN _check_range(e4, "skin_thickness", self.skin_thickness) ELSE e4
        e6 == IF self.insulin # None
              THEN _check_range(e5, "insulin", self.insulin) ELSE e5
        e7 == IF self.pregnancies # Num(0)
              THEN _check_range(e6, "pregnancies", self.pregnancies) ELSE e6
        e8 == IF self.diabetes_pedigree # None
              THEN _check_range(e7, "diabetes_pedigree", self.diabetes_pedigree) ELSE e7
    IN  e8

\* self._validation_errors = []; self._validate()
__post_init__(self) == _validate(self)

\* The result of a construction: raised, or the field values and the error list.
NoFields == [f \in {} |-> None]

\* HealthProfile(**kwargs): the generated __init__ (a required argument that is
\* not passed raises TypeError; the others take their defaults), then
\* __post_init__.
HealthProfile(kwargs) ==
    IF ~(RequiredFields \subseteq DOMAIN kwargs)
    THEN [raised |-> TRUE, self |-> NoFields, errors |-> <<>>]
    ELSE LET self == [f \in FieldSet |->
                        IF f \in DOMAIN kwargs THEN kwargs[f] ELSE FieldDefault(f)]
             r == __post_init__(self)
         IN  IF r.raised
             THEN [raised |-> TRUE, self |-> NoFields, errors |-> <<>>]
             ELSE [raised |-> FALSE, self |-> self, errors |-> r.errors]

\* dict.get(key, default)
Get(data, key, default) == IF key \in DOMAIN data THEN data[key] ELSE default

from_dict_StrictKeys(data) == HealthProfile(data)

from_dict_DefaultNone(data) ==
    HealthProfile(
        [glucose |-> Get(data, "glucose", None),
         blood_pressure |-> Get(data, "blood_pressure", None),
         bmi |-> Get(data, "bmi", None),
         age |-> Get(data, "age", None),
         skin_thickness |-> Get(data, "skin_thickness", None),
         insulin |-> Get(data, "insulin", None),
         pregnancies |-> Get(data, "pregnancies", Num(0)),
         diabetes_pedigree |-> Get(data, "diabetes_pedigree", None)])

from_dict(data) ==
    HealthProfile(
        [glucose |-> Get(data, "glucose", Num(0)),
         blood_pressure |-> Get(data, "blood_pressure", Num(0)),
         bmi |-> Get(data, "bmi", Num(0)),
         age |-> Get(data, "age", Num(0)),
         skin_thickness |-> Get(data, "skin_thickness", None),
         insulin |-> Get(data, "insulin", None),
         pregnancies |-> Get(data, "pregnancies", Num(0)),
         diabetes_pedigree |-> Get(data, "diabetes_pedigree", None)])

AlwaysKeys == {"glucose", "blood_pressure", "bmi", "age", "pregnancies"}

OptionalKeys == {"skin_thickness", "insulin", "diabetes_pedigree"}

to_dict_NoPregnancies(self) ==
    [k \in (RequiredFields \cup {f \in OptionalKeys : self[f] # None}) |-> self[k]]

to_dict(self) ==
    [k \in (AlwaysKeys \cup {f \in OptionalKeys : self[f] # None}) |-> self[k]]

(***************************************************************************)
(* BMICalculator.  Weight is in tenths of a kilogram and height in         *)
(* centimetres, so weight / height ** 2 is the exact fraction              *)
(* (1000 * weight) / (height * height); a comparison with a threshold      *)
(* given in tenths is made by cross-multiplication.                        *)
(***************************************************************************)
BMICalculator(weight, height) == [weight |-> weight, height |-> height]

calculate_bmi(self) == [num |-> 1000 * self.weight, den |-> self.height * self.height]

\* bmi < tenths / 10
Below(bmi, tenths) == 10 * bmi.num < tenths * bmi.den

get_category_Inclusive(self) ==
    IF self.height = 0 THEN "ZeroDivisionError"
    ELSE LET bmi == calculate_bmi(self)
         IN  IF Below(bmi, 185) \/ 10 * bmi.num = 185 * bmi.den THEN "Underweight"
             ELSE IF Below(bmi, 250) \/ 10 * bmi.num = 250 * bmi.den THEN "Normal weight"
             ELSE IF Below(bmi, 300) \/ 10 * bmi.num = 300 * bmi.den THEN "Overweight"
             ELSE "Obese"

get_category(self) ==
    IF self.height = 0 THEN "ZeroDivisionError"
    ELSE LET bmi == calculate_bmi(self)
         IN  IF Below(bmi, 185) THEN "Underweight"
             ELSE IF Below(bmi, 250) THEN "Normal weight"
             ELSE IF Below(bmi, 300) THEN "Overweight"
             ELSE "Obese"

(***************************************************************************)
(* Objects.  A profile object is its field values and a reference to its   *)
(* _validation_errors list; lists live in a heap, so that two references   *)
(* to one list are told apart from two equal lists.                        *)
(***************************************************************************)
ListRefs == {"p_errors", "q_errors", "returned"}

NoProfile == [fields |-> NoFields, errs |-> "none"]

NoCalc == [weight |-> 0, height |-> 0]

is_valid_Revalidate(self) == _validate(self.fields).errors = <<>>

\* len(self._validation_errors) == 0
is_valid(self) == Len(heap[self.errs]) = 0

validation_errors_NoCopy(self) == [ref |-> self.errs, heap |-> heap]

\* self._validation_errors.copy(): a new list with the same elements.
validation_errors(self) ==
    [ref |-> "returned", heap |-> [heap EXCEPT !["returned"] = heap[self.errs]]]

(***************************************************************************)
(* Inputs                                                                  *)
(***************************************************************************)
\* How many fields of an input differ from the baseline profile.
MaxDev == 2

\* How many attribute assignments are made to one object.
MaxAssign == 1

\* How long a list held by the caller is allowed to grow.
MaxListLen == 3

Missing == [t |-> "missing", v |-> 0]

\* Example 1 of the module's __main__.
Baseline ==
    [glucose |-> Num(120000), blood_pressure |-> Num(80000),
     bmi |-> Num(28500), age |-> Num(45000)]

\* Examples 1 to 3 of the module's __main__.
Examples ==
    {Baseline,
     [glucose |-> Num(148000), blood_pressure |-> Num(72000), bmi |-> Num(33600),
      age |-> Num(50000), skin_thickness |-> Num(35000), insulin |-> Num(0),
      pregnancies |-> Num(6000), diabetes_pedigree |-> Num(627)],
     [glucose |-> Num(500000), blood_pressure |-> Num(10000),
      bmi |-> Num(28500), age |-> Num(45000)]}

\* Integer-valued measurements move in whole units, the others in thousandths.
Step(f) == IF f \in {"bmi", "skin_thickness", "diabetes_pedigree"} THEN 1 ELSE 1000

\* Just below the minimum, the two bounds, and just above the maximum.
NumericValues(f) ==
    LET lo == VALID_RANGES[f][1]
        hi == VALID_RANGES[f][2]
    IN  {Num(lo - Step(f)), Num(lo), Num(hi), Num(hi + Step(f))}

Alternatives(f) == NumericValues(f) \cup {Str, None, Missing}

\* kwargs with f passed as x, or not passed at all.
Alter(kwargs, f, x) ==
    IF x = Missing
    THEN [k \in DOMAIN kwargs \ {f} |-> kwargs[k]]
    ELSE [k \in DOMAIN kwargs \cup {f} |-> IF k = f THEN x ELSE kwargs[k]]

RECURSIVE Deviations(_)
Deviations(n) ==
    IF n = 0 THEN {Baseline}
    ELSE LET prev == Deviations(n - 1)
         IN  prev \cup UNION {{Alter(a, f, x) : x \in Alternatives(f)} :
                                 a \in prev, f \in FieldSet}

Inputs ==
    Deviations(MaxDev)
        \cup Examples
        \cup {[k \in RequiredFields \ M |-> Baseline[k]] : M \in SUBSET RequiredFields}

\* Weights in tenths of a kilogram, heights in centimetres.
Weights == {100, 416, 417, 535, 700, 739, 740, 741, 999, 1000, 1001, 1199, 1200, 1201, 3000}

Heights == {0, 50, 150, 170, 200, 250}

(***************************************************************************)
(* Operations                                                              *)
(***************************************************************************)
\* p = HealthProfile(**kwargs)
Construct ==
    /\ pc = "start"
    /\ call.op = "HealthProfile"
    /\ LET r == HealthProfile(call.kwargs)
       IN  IF r.raised
           THEN /\ pc' = "TypeError"
                /\ UNCHANGED <<p, heap>>
           ELSE /\ pc' = "constructed"
                /\ p' = [fields |-> r.self, errs |-> "p_errors"]
                /\ heap' = [heap EXCEPT !["p_errors"] = r.errors]
    /\ UNCHANGED <<call, q, held, nassign, calc, category, app, rendered>>

\* p = HealthProfile.from_dict(data)
FromDict ==
    /\ pc = "start"
    /\ call.op = "from_dict"
    /\ LET r == from_dict(call.kwargs)
       IN  IF r.raised
           THEN /\ pc' = "TypeError"
                /\ UNCHANGED <<p, heap>>
           ELSE /\ pc' = "constructed"
                /\ p' = [fields |-> r.self, errs |-> "p_errors"]
                /\ heap' = [heap EXCEPT !["p_errors"] = r.errors]
    /\ UNCHANGED <<call, q, held, nassign, calc, category, app, rendered>>

\* q = HealthProfile.from_dict(p.to_dict())
RoundTrip ==
    /\ pc = "constructed"
    /\ q = NoProfile
    /\ LET r == from_dict(to_dict(p.fields))
       IN  IF r.raised
           THEN /\ pc' = "TypeError"
                /\ UNCHANGED <<q, heap>>
           ELSE /\ pc' = pc
                /\ q' = [fields |-> r.self, errs |-> "q_errors"]
                /\ heap' = [heap EXCEPT !["q_errors"] = r.errors]
    /\ UNCHANGED <<call, p, held, nassign, calc, category, app, rendered>>

\* held = p.validation_errors
GetValidationErrors ==
    /\ pc = "constructed"
    /\ LET r == validation_errors(p)
       IN  /\ held' = r.ref
           /\ heap' = r.heap
    /\ UNCHANGED <<call, pc, p, q, nassign, calc, category, app, rendered>>

Junk == Message("glucose", 0, "appended by the caller", 0)

\* held.append(x), held.pop(), held.clear()
MutateReturned(kind) ==
    /\ pc = "constructed"
    /\ held # "none"
    /\ \/ /\ kind = "append"
          /\ Len(heap[held]) < MaxListLen
          /\ heap' = [heap EXCEPT ![held] = Append(@, Junk)]
       \/ /\ kind = "pop"
          /\ Len(heap[held]) > 0
          /\ heap' = [heap EXCEPT ![held] = SubSeq(@, 1, Len(@) - 1)]
       \/ /\ kind = "clear"
          /\ heap' = [heap EXCEPT ![held] = <<>>]
    /\ UNCHANGED <<call, pc, p, q, held, nassign, calc, category, app, rendered>>

\* p.<f> = v: the dataclass is not frozen, so its fields are plain attributes.
SetField(f, v) ==
    /\ pc = "constructed"
    /\ nassign < MaxAssign
    /\ p' = [p EXCEPT !.fields[f] = v]
    /\ nassign' = nassign + 1
    /\ UNCHANGED <<call, pc, q, heap, held, calc, category, app, rendered>>

\* category = calc.get_category()
GetCategory ==
    /\ pc = "calculator"
    /\ category = "none"
    /\ category' = get_category(calc)
    /\ UNCHANGED <<call, pc, p, q, heap, held, nassign, calc, app, rendered>>

(***************************************************************************)
(* The dashboard script.  Streamlit runs the script from top to bottom on  *)
(* every interaction; a run reads the widgets (the page selector, the two  *)
(* number inputs, the button) and renders.  Of what a run renders, the     *)
(* model keeps the routing branch taken, its header and the BMI category.  *)
(***************************************************************************)
\* The options of the sidebar selectbox.
PageOptions ==
    <<"Home", "Data Overview", "BMI Calculator",
      "Statistical Analysis & Insights", "About">>

\* The strings the if/elif chain compares page with, in order.
Branches == <<"Home", "Data Overview", "BMI Calculator", "Analysis & Insights">>

\* The st.header of each branch.
Header(branch) ==
    CASE branch = "Home" -> "Welcome to the Diabetes Analysis Project"
      [] branch = "Data Overview" -> "Data Overview"
      [] branch = "BMI Calculator" -> "BMI Calculator"
      [] branch = "Analysis & Insights" -> "Analysis & Insights"

\* The branch of the if/elif chain that runs for page: the first whose string
\* equals it, or none (the chain has no else).
Route(page) ==
    IF \E i \in DOMAIN Branches : Branches[i] = page
    THEN Branches[CHOOSE i \in DOMAIN Branches :
                      /\ Branches[i] = page
                      /\ \A j \in DOMAIN Branches : Branches[j] = page => i <= j]
    ELSE "none"

\* One run of the script below the selectbox: load_data() (FileNotFoundError
\* when the file is absent, caught by the except clause), then the routing.
Script(widgets) ==
    IF ~widgets.datafile
    THEN [branch |-> "FileNotFoundError", header |-> "Data file not found",
          category |-> "none"]
    ELSE LET branch == Route(widgets.page)
         IN  IF branch = "none"
             THEN [branch |-> "none", header |-> "none", category |-> "none"]
             ELSE [branch |-> branch,
                   header |-> Header(branch),
                   category |->
                       IF branch = "BMI Calculator" /\ widgets.clicked
                       THEN get_category(BMICalculator(widgets.weight, widgets.height))
                       ELSE "none"]

\* The widgets of a first run: the first option, value=70.0, value=1.7, and
\* the button not pressed.
FirstRun(datafile) ==
    [page |-> PageOptions[1], weight |-> 700, height |-> 170,
     clicked |-> FALSE, datafile |-> datafile]

NoApp == [page |-> "none", weight |-> 0, height |-> 0, clicked |-> FALSE, datafile |-> FALSE]

NoOutput == [branch |-> "none", header |-> "none", category |-> "none"]

\* The number inputs take 1.0 to 300.0 kg and 0.5 to 2.5 m.
AppHeights == {h \in Heights : 50 <= h /\ h <= 250}

\* The user picks a page in the sidebar; the number inputs of a page that was
\* not on screen start from their defaults.
SelectPage(pg) ==
    /\ pc = "app"
    /\ app' = [FirstRun(app.datafile) EXCEPT !.page = pg]
    /\ rendered' = Script(app')
    /\ UNCHANGED <<call, pc, p, q, heap, held, nassign, calc, category>>

\* The user changes weight and height on the BMI page.
EnterMeasurements(w, h) ==
    /\ pc = "app"
    /\ rendered.branch = "BMI Calculator"
    /\ app' = [app EXCEPT !.weight = w, !.height = h, !.clicked = FALSE]
    /\ rendered' = Script(app')
    /\ UNCHANGED <<call, pc, p, q, heap, held, nassign, calc, category>>

\* The user presses "Calculate BMI".
ClickCalculate ==
    /\ pc = "app"
    /\ rendered.branch = "BMI Calculator"
    /\ app' = [app EXCEPT !.clicked = TRUE]
    /\ rendered' = Script(app')
    /\ UNCHANGED <<call, pc, p, q, heap, held, nassign, calc, category>>

(***************************************************************************)
(* Specifications                                                          *)
(***************************************************************************)
Blank ==
    /\ p = NoProfile
    /\ q = NoProfile
    /\ heap = [r \in ListRefs |-> <<>>]
    /\ held = "none"
    /\ nassign = 0
    /\ category = "none"

\* Construction and dictionary conversion, over all the inputs.
Init ==
    /\ call \in {[op |-> o, kwargs |-> a] : o \in {"HealthProfile", "from_dict"}, a \in Inputs}
    /\ pc = "start"
    /\ calc = NoCalc
    /\ app = NoApp
    /\ rendered = NoOutput
    /\ Blank

Next == Construct \/ FromDict \/ RoundTrip

Spec == Init /\ [][Next]_vars

\* The life of one object in the hands of a caller.
InitObject ==
    /\ call \in {[op |-> o, kwargs |-> a] : o \in {"HealthProfile", "from_dict"}, a \in Examples}
    /\ pc = "start"
    /\ calc = NoCalc
    /\ app = NoApp
    /\ rendered = NoOutput
    /\ Blank

AssignValues(f) == NumericValues(f) \cup (IF f \in OptionalKeys THEN {None} ELSE {})

NextObject ==
    \/ Construct
    \/ FromDict
    \/ RoundTrip
    \/ GetValidationErrors
    \/ \E kind \in {"append", "pop", "clear"} : MutateReturned(kind)
    \/ \E f \in FieldSet : \E v \in AssignValues(f) : SetField(f, v)

SpecObject == InitObject /\ [][NextObject]_vars

\* BMICalculator(weight, height).get_category()
InitBMI ==
    /\ call = [op |-> "BMICalculator", kwargs |-> NoFields]
    /\ pc = "calculator"
    /\ calc \in {BMICalculator(w, h) : w \in Weights, h \in Heights}
    /\ app = NoApp
    /\ rendered = NoOutput
    /\ Blank

NextBMI == GetCategory

SpecBMI == InitBMI /\ [][NextBMI]_vars

\* The dashboard: the first run of the script, then one run per interaction.
InitApp ==
    /\ call = [op |-> "streamlit run app.py", kwargs |-> NoFields]
    /\ pc = "app"
    /\ calc = NoCalc
    /\ \E datafile \in BOOLEAN :
          /\ app = FirstRun(datafile)
          /\ rendered = Script(FirstRun(datafile))
    /\ Blank

NextApp ==
    \/ \E i \in DOMAIN PageOptions : SelectPage(PageOptions[i])
    \/ \E w \in Weights, h \in AppHeights : EnterMeasurements(w, h)
    \/ ClickCalculate

SpecApp == InitApp /\ [][NextApp]_vars

(***************************************************************************)
(* Properties                                                              *)
(***************************************************************************)
\* The list behind a profile's _validation_errors.
Errors(x) == heap[x.errs]

\* The positions of the messages of field f in a list.
MessagesOf(list, f) == {i \in DOMAIN list : list[i].field = Title(f)}

\* f is checked: always if required, if supplied when optional, if non-zero
\* for pregnancies.
IsChecked(self, f) ==
    \/ f \in RequiredFields
    \/ f \in OptionalKeys /\ self[f] # None
    \/ f = "pregnancies" /\ self[f] # Num(0)

IsBelow(self, f) == IsChecked(self, f) /\ self[f].v < VALID_RANGES[f][1]

IsAbove(self, f) == IsChecked(self, f) /\ self[f].v > VALID_RANGES[f][2]

\* C1: a constructed profile's error list holds, for each checked field, exactly
\* the below-minimum message when the value is under the minimum, exactly the
\* above-maximum message when it is over the maximum, and no message when it is
\* within the bounds (inclusive); unchecked fields have no message and the list
\* holds nothing else.
C1_RangeMessages ==
    pc = "constructed" =>
        LET self == p.fields
            list == Errors(p)
        IN  /\ \A f \in FieldSet :
                  LET lo == VALID_RANGES[f][1]
                      hi == VALID_RANGES[f][2]
                      at == MessagesOf(list, f)
                  IN  /\ IsChecked(self, f) /\ self[f].v < lo =>
                            /\ Cardinality(at) = 1
                            /\ \A i \in at :
                                  list[i] = [field |-> Title(f), value |-> self[f].v,
                                             kind |-> "below minimum", bound |-> lo]
                      /\ IsChecked(self, f) /\ self[f].v > hi =>
                            /\ Cardinality(at) = 1
                            /\ \A i \in at :
                                  list[i] = [field |-> Title(f), value |-> self[f].v,
                                             kind |-> "above maximum", bound |-> hi]
                      /\ IsChecked(self, f) /\ lo <= self[f].v /\ self[f].v <= hi =>
                            at = {}
                      /\ ~IsChecked(self, f) => at = {}
            /\ Len(list) = Cardinality({f \in FieldSet : IsBelow(self, f) \/ IsAbove(self, f)})

\* A supplied optional field under its minimum and a required field over its
\* maximum: two messages.
C1_Witness ==
    /\ pc = "constructed"
    /\ \E f \in OptionalKeys, g \in RequiredFields :
          /\ IsBelow(p.fields, f)
          /\ IsAbove(p.fields, g)
          /\ Len(Errors(p)) = 2

\* C2: a profile is immutable after construction, so in every state the stored
\* error list is the list that validating the current field values produces.
C2_ErrorsNeverStale ==
    pc = "constructed" => Errors(p) = _validate(p.fields).errors

\* C3: for a valid profile p, from_dict(p.to_dict()) has p's eight field values
\* (absent optional fields included), p's error list and p's is_valid().
C3_RoundTrip ==
    (pc = "constructed" /\ q # NoProfile /\ is_valid(p)) =>
        /\ \A f \in FieldSet : q.fields[f] = p.fields[f]
        /\ DOMAIN q.fields = DOMAIN p.fields
        /\ Errors(q) = Errors(p)
        /\ is_valid(q) = is_valid(p)

\* A valid profile with pregnancies, one optional field supplied and another
\* absent has been converted and restored.
C3_Witness ==
    /\ pc = "constructed"
    /\ q # NoProfile
    /\ is_valid(p)
    /\ p.fields.pregnancies # Num(0)
    /\ \E f, g \in OptionalKeys : p.fields[f] # None /\ p.fields[g] = None

\* What the call passes for field f once the defaults are in: the constructor's
\* defaults, or those of from_dict's data.get.
Passed(f) ==
    IF f \in DOMAIN call.kwargs THEN call.kwargs[f]
    ELSE IF call.op = "from_dict" /\ f \in RequiredFields THEN Num(0)
    ELSE IF f = "pregnancies" THEN Num(0)
    ELSE None

\* C4 as stated: construction fails with a type error, and yields no profile,
\* exactly when a required field is missing or non-numeric, on both paths.
C4_RequiredMissingOrNonNumericFails ==
    pc # "start" =>
        (pc = "TypeError" <=>
            \E f \in RequiredFields :
                f \notin DOMAIN call.kwargs \/ call.kwargs[f].t # "num")

\* C4 amended: the constructor fails with a type error, yielding no profile,
\* exactly when a required argument is not passed or a checked field (required,
\* optional and not None, pregnancies and not 0) is non-numeric; from_dict fails
\* exactly when a checked field is non-numeric after its defaults (0 for a
\* missing required key), so a missing key never makes from_dict fail.
C4_TypeErrorExactly ==
    pc # "start" =>
        /\ pc = "TypeError" <=>
              \/ call.op = "HealthProfile" /\ ~(RequiredFields \subseteq DOMAIN call.kwargs)
              \/ \E f \in FieldSet :
                    /\ Passed(f).t # "num"
                    /\ ~(f \in OptionalKeys /\ Passed(f) = None)
        /\ pc = "TypeError" => p = NoProfile
        /\ pc = "constructed" => p # NoProfile

\* from_dict was given a mapping without glucose and returned a profile, and
\* (in other runs) the constructor raised for the same mapping.
C4_Witness ==
    /\ call.op = "from_dict"
    /\ "glucose" \notin DOMAIN call.kwargs
    /\ pc = "constructed"
    /\ p.fields.glucose = Num(0)

\* A mapping whose values are numbers (None allowed for the optional keys).
WellTyped(data) ==
    \A k \in DOMAIN data : data[k].t = "num" \/ (k \in OptionalKeys /\ data[k] = None)

\* C5: from_dict of a mapping lacking required keys never raises; a missing
\* required key is 0, a missing optional key is absent, missing pregnancies is
\* 0; the profile is validated like any other, so each missing required key has
\* its below-minimum message and is_valid() is false.
C5_FromDictMissingKeys ==
    (call.op = "from_dict" /\ pc # "start" /\ WellTyped(call.kwargs)) =>
        /\ pc = "constructed"
        /\ \A f \in FieldSet \ DOMAIN call.kwargs :
              p.fields[f] = (IF f \in OptionalKeys THEN None ELSE Num(0))
        /\ \A f \in DOMAIN call.kwargs : p.fields[f] = call.kwargs[f]
        /\ Errors(p) = _validate(p.fields).errors
        /\ \A f \in RequiredFields \ DOMAIN call.kwargs :
              \E i \in DOMAIN Errors(p) :
                  Errors(p)[i] = [field |-> Title(f), value |-> 0,
                                  kind |-> "below minimum", bound |-> VALID_RANGES[f][1]]
        /\ RequiredFields \ DOMAIN call.kwargs # {} => ~is_valid(p)

\* from_dict of the empty mapping: four below-minimum messages.
C5_Witness ==
    /\ call.op = "from_dict"
    /\ DOMAIN call.kwargs = {}
    /\ pc = "constructed"
    /\ Len(Errors(p)) = 4
    /\ ~is_valid(p)

\* The error list the construction of p produced.
ConstructedErrors ==
    IF call.op = "from_dict" THEN from_dict(call.kwargs).errors
    ELSE HealthProfile(call.kwargs).errors

\* C6: once the caller holds a list returned by validation_errors, whatever the
\* caller does to it, the profile's own list, a later validation_errors read and
\* is_valid() are what they were at construction.
C6_DefensiveCopy ==
    (pc = "constructed" /\ held # "none") =>
        /\ Errors(p) = ConstructedErrors
        /\ LET r == validation_errors(p) IN r.heap[r.ref] = ConstructedErrors
        /\ is_valid(p) = (ConstructedErrors = <<>>)

\* The caller's list no longer equals the profile's.
C6_Witness ==
    /\ pc = "constructed"
    /\ held # "none"
    /\ heap[held] # Errors(p)
    /\ Len(Errors(p)) > 0

\* C7: is_valid() is true exactly when validation_errors is empty.
C7_IsValidIffNoErrors ==
    \A x \in {p, q} :
        x # NoProfile =>
            (is_valid(x) <=> LET r == validation_errors(x) IN Len(r.heap[r.ref]) = 0)

\* An invalid profile and a valid one side by side.
C7_Witness ==
    /\ pc = "constructed"
    /\ q # NoProfile
    /\ ~is_valid(p)
    /\ is_valid(q)

\* Position of a field in the check order.
OrderIndex(f) == CHOOSE i \in DOMAIN FieldOrder : FieldOrder[i] = f

\* C8: messages come in the order glucose, blood_pressure, bmi, age,
\* skin_thickness, insulin, pregnancies, diabetes_pedigree: of two out-of-range
\* checked fields the earlier one's message comes first; glucose=500 with
\* blood_pressure=10 gives glucose above maximum, then blood pressure below
\* minimum.
C8_MessageOrder ==
    pc = "constructed" =>
        LET self == p.fields
            list == Errors(p)
            out == {f \in FieldSet : IsBelow(self, f) \/ IsAbove(self, f)}
        IN  /\ \A f, g \in out :
                  OrderIndex(f) < OrderIndex(g) =>
                      /\ MessagesOf(list, f) # {}
                      /\ MessagesOf(list, g) # {}
                      /\ \A i \in MessagesOf(list, f), j \in MessagesOf(list, g) : i < j
            /\ (self.glucose = Num(500000) /\ self.blood_pressure = Num(10000)
                  /\ self.bmi = Num(28500) /\ self.age = Num(45000)
                  /\ Len(list) = 2) =>
                  list = << [field |-> "Glucose", value |-> 500000,
                             kind |-> "above maximum", bound |-> 199000],
                            [field |-> "Blood Pressure", value |-> 10000,
                             kind |-> "below minimum", bound |-> 24000] >>

\* Age and an earlier field are both out of range.
C8_Witness ==
    /\ pc = "constructed"
    /\ IsBelow(p.fields, "age") \/ IsAbove(p.fields, "age")
    /\ \E f \in {"glucose", "blood_pressure", "bmi"} :
          IsBelow(p.fields, f) \/ IsAbove(p.fields, f)
    /\ Len(Errors(p)) = 2

\* Validation that checks pregnancies whatever its value.
ValidateWithoutSkip(self) ==
    LET e1 == _check_range(Started, "glucose", self.glucose)
        e2 == _check_range(e1, "blood_pressure", self.blood_pressure)
        e3 == _check_range(e2, "bmi", self.bmi)
        e4 == _check_range(e3, "age", self.age)
        e5 == IF self.skin_thickness # None
              THEN _check_range(e4, "skin_thickness", self.skin_thickness) ELSE e4
        e6 == IF self.insulin # None
              THEN _check_range(e5, "insulin", self.insulin) ELSE e5
        e7 == _check_range(e6, "pregnancies", self.pregnancies)
        e8 == IF self.diabetes_pedigree # None
              THEN _check_range(e7, "diabetes_pedigree", self.diabetes_pedigree) ELSE e7
    IN  e8

\* C9: skipping the check when pregnancies == 0 changes nothing: the error list
\* is the one validation without the skip produces; pregnancies == 0 has no
\* pregnancies message, a non-zero value outside 0..20 has one.
C9_SkipIsNoOp ==
    pc = "constructed" =>
        LET self == p.fields
            at == MessagesOf(Errors(p), "pregnancies")
        IN  /\ Errors(p) = ValidateWithoutSkip(self).errors
            /\ ~ValidateWithoutSkip(self).raised
            /\ self.pregnancies = Num(0) => at = {}
            /\ (self.pregnancies # Num(0)
                  /\ (self.pregnancies.v < 0 \/ self.pregnancies.v > 20000)) => at # {}

\* A profile with pregnancies == 0 passed explicitly.
C9_Witness ==
    /\ pc = "constructed"
    /\ "pregnancies" \in DOMAIN call.kwargs
    /\ p.fields.pregnancies = Num(0)
    /\ Errors(p) = ValidateWithoutSkip(p.fields).errors

\* C10: get_category gives Underweight under 18.5, Normal weight from 18.5 to
\* under 25, Overweight from 25 to under 30, Obese from 30: a bound belongs to
\* the higher category.
C10_Categories ==
    (category # "none" /\ calc.height # 0) =>
        LET n == 10 * 1000 * calc.weight
            d == calc.height * calc.height
        IN  /\ category \in {"Underweight", "Normal weight", "Overweight", "Obese"}
            /\ category = "Underweight" <=> n < 185 * d
            /\ category = "Normal weight" <=> (185 * d <= n /\ n < 250 * d)
            /\ category = "Overweight" <=> (250 * d <= n /\ n < 300 * d)
            /\ category = "Obese" <=> 300 * d <= n
            /\ (calc.weight = 700 /\ calc.height = 170) => category = "Normal weight"

\* A BMI of exactly 25 has been categorised.
C10_Witness ==
    /\ category = "Overweight"
    /\ 10 * 1000 * calc.weight = 250 * calc.height * calc.height

\* C11: every page the sidebar selector offers is handled by the router: when
\* the data loads, exactly one routing branch matches the selected page and
\* that page's content is rendered.
C11_EveryPageRouted ==
    (pc = "app" /\ app.datafile) =>
        /\ Cardinality({i \in DOMAIN Branches : Branches[i] = app.page}) = 1
        /\ rendered.branch = app.page
        /\ rendered.header # "none"

====
